---- MODULE Spec2Model ----
(***************************************************************************)
(* The StrongSearch module of web/static/js/ui-helpers.js: the search      *)
(* session engine that opens a WebSocket after fetching a client id,       *)
(* interprets the inbound frames, pairs tool_call / tool_output log        *)
(* events, keeps a bounded log and renders the final result.               *)
(*                                                                         *)
(* Every action is one JavaScript task: a caller's call up to its first    *)
(* real suspension (a fetch, the socket's open), or one event handler      *)
(* together with the promise continuations it releases (microtasks run     *)
(* before the next task).                                                  *)
(***************************************************************************)
EXTENDS Integers, Sequences, FiniteSets, TLC

\* ------------------------------------------------------------------ bounds
MaxSteps == 7        \* tasks of a lifecycle run
MaxCorrFrames == 3   \* inbound log frames of a correlation run
MaxFlood == 250      \* inbound log frames of a log-store run
MaxSpecial == 2      \* the first frames of a log-store run, which may be tool frames
MaxResultFrames == 2 \* inbound result frames of a result run
MaxProtocolFrames == 3 \* inbound frames of a protocol run
MaxMcpRequests == 2  \* requests sent to the MCP server
MaxClock == 2        \* readings Date.now() can take
MaxResumeSteps == 8  \* tasks of a run in which a result handler resumes late
MaxPollSteps == 7    \* tasks of a run of the index-status polling
MaxModalSteps == 6   \* tasks of a run in which the modal is opened and closed

\* --------------------------------------------------------------- constants
maxLogEntries == 200

NoSocket == 0            \* strongSearchSocket = null
Null == "null"           \* a null string-valued variable
NoTimestamp == 0         \* message.timestamp absent (or 0: both are falsy)
NoTimer == 0             \* indexingPolls[name] undefined

Codebases == {"repo1"}
ClientIds == {"abc123", "def456"}
Queries == {"", "auth flow"}
ToolNames == {"grep", "read_file"}
Timestamps == {1000, 1001}

VARIABLES
    currentStrongSearchCodebase, \* null or the codebase the modal was opened for
    strongSearchSocket,          \* NoSocket or an index into sockets
    strongSearchClientId,        \* null, undefined or the last fetched id
    isStrongSearching,
    toolCallMap,                 \* tool call id -> log entry
    toolCallsByName,             \* tool name -> log entry
    logEntries,                  \* every log entry element created and appended
    logContainer,                \* children of strongSearchModalLogContainer
    progressPercent,             \* the progress bar's text, as a number
    progressTitle,               \* the progress bar's title attribute
    connectionStatus,            \* what updateStrongSearchConnectionStatus shows
    resultContainer,             \* what strongSearchModalResultContainer holds
    sockets,                     \* every WebSocket object created
    attempts,                    \* every connectStrongSearchWebSocket call past its guard
    fetches,                     \* every batch content request of displayStrongSearchResult
    clock,                       \* the ticks Date.now() has advanced
    steps, framesRecv,           \* counters of tasks and of inbound frames
    ev,                          \* the task that ran last
    sessionStart,                \* how many entries existed at the last resetStrongSearchUI
    connsAtDrop,                 \* <<n>>: a search lost its connection when n sockets
                                 \* existed and the caller has not started or opened since
    mcpReplies,                  \* the MCP server's replies to the requests it was sent
    indexingPolls,               \* codebase name -> interval id, NoTimer when deleted
    intervals,                   \* every interval timer setInterval created
    pollTasks,                   \* every request of the codebase manager and its handler
    server,                      \* what the backend holds for each codebase
    card,                        \* what each codebase card shows
    modalOpen,                   \* strongSearchModal has the class 'open'
    closeTimeouts                \* the 300 ms timeouts of UI.closeModal not yet fired

vars == <<currentStrongSearchCodebase, strongSearchSocket, strongSearchClientId,
          isStrongSearching, toolCallMap, toolCallsByName, logEntries, logContainer,
          progressPercent, progressTitle, connectionStatus, resultContainer,
          sockets, attempts, fetches, clock, steps, framesRecv, ev, sessionStart,
          connsAtDrop, mcpReplies, indexingPolls, intervals, pollTasks, server, card,
          modalOpen, closeTimeouts>>

pollVars == <<indexingPolls, intervals, pollTasks, server, card>>

\* ------------------------------------------------------------------ values
\* A log frame's message: a string, a string holding the JSON text of a tool
\* call ("strjson"), or an object ("obj") with or without tool_name.
StrMsg(s) == [k |-> "str", text |-> s, tool_name |-> "", timestamp |-> NoTimestamp,
              output_preview |-> ""]
ObjMsg(name, ts, out) == [k |-> "obj", text |-> "", tool_name |-> name, timestamp |-> ts,
                          output_preview |-> out]
JsonStrMsg(name, ts) == [k |-> "strjson", text |-> "", tool_name |-> name, timestamp |-> ts,
                         output_preview |-> ""]
NoMsg == StrMsg("")

NoFrame == [type |-> "none", level |-> "", message |-> NoMsg, progress |-> 0,
            status |-> "", files |-> <<>>, error |-> NoMsg]
LogFrame(level, message) == [NoFrame EXCEPT !.type = "log", !.level = level,
                                            !.message = message]
ProgressFrame(p, status) == [NoFrame EXCEPT !.type = "progress", !.progress = p,
                                            !.status = status]
ResultFrame(files) == [NoFrame EXCEPT !.type = "result", !.files = files]
ErrorFrameMsg(message) == [NoFrame EXCEPT !.type = "error", !.error = message]
ErrorFrame(text) == ErrorFrameMsg(StrMsg(text))
UnknownFrame == [NoFrame EXCEPT !.type = "heartbeat"]
MalformedFrame == [NoFrame EXCEPT !.type = "unparseable"]

Event(op, arg, sock, frame) == [op |-> op, arg |-> arg, sock |-> sock, frame |-> frame]

\* ---------------------------------------------------------- pure functions
\* Date.now(): the client's clock readings are taken to differ from every
\* timestamp the server sends
DateNow(now) == 2000 + now

generateToolCallId(toolName, timestamp) ==
    "tool-call-" \o toolName \o "-" \o ToString(timestamp)

\* message.timestamp || Date.now()
TimestampOr(timestamp, now) == IF timestamp # NoTimestamp THEN timestamp ELSE DateNow(now)

\* Math.max(0, Math.min(100, Math.round(progress * 100))), progress in thousandths
Percent(progress) ==
    LET rounded == (progress + 5) \div 10
        capped == IF rounded > 100 THEN 100 ELSE rounded
    IN  IF capped < 0 THEN 0 ELSE capped

EmptyMap == [x \in {} |-> 0]

\* ------------------------------------------------------- the module's state
\* The closure variables and the DOM they drive, as one value: a handler is a
\* function from this value to the next one, so that handlers compose the way
\* the calls in the source do.
Cur == [currentStrongSearchCodebase |-> currentStrongSearchCodebase,
        strongSearchSocket |-> strongSearchSocket,
        strongSearchClientId |-> strongSearchClientId,
        isStrongSearching |-> isStrongSearching,
        toolCallMap |-> toolCallMap,
        toolCallsByName |-> toolCallsByName,
        logEntries |-> logEntries,
        logContainer |-> logContainer,
        progressPercent |-> progressPercent,
        progressTitle |-> progressTitle,
        connectionStatus |-> connectionStatus,
        resultContainer |-> resultContainer,
        sockets |-> sockets,
        attempts |-> attempts,
        fetches |-> fetches,
        modalOpen |-> modalOpen,
        closeTimeouts |-> closeTimeouts]

Commit(m) ==
    /\ currentStrongSearchCodebase' = m.currentStrongSearchCodebase
    /\ strongSearchSocket' = m.strongSearchSocket
    /\ strongSearchClientId' = m.strongSearchClientId
    /\ isStrongSearching' = m.isStrongSearching
    /\ toolCallMap' = m.toolCallMap
    /\ toolCallsByName' = m.toolCallsByName
    /\ logEntries' = m.logEntries
    /\ logContainer' = m.logContainer
    /\ progressPercent' = m.progressPercent
    /\ progressTitle' = m.progressTitle
    /\ connectionStatus' = m.connectionStatus
    /\ resultContainer' = m.resultContainer
    /\ sockets' = m.sockets
    /\ attempts' = m.attempts
    /\ fetches' = m.fetches
    /\ modalOpen' = m.modalOpen
    /\ closeTimeouts' = m.closeTimeouts

\* ------------------------------------------------------------ the log store
\* A log entry element: its level class, how it is rendered, its text, and for a
\* tool call the name and timestamp of the message it was built from
LogEntry(level, kind, message) ==
    [level |-> level, kind |-> kind, text |-> message.text,
     tool_name |-> message.tool_name, timestamp |-> message.timestamp, output |-> ""]

\* Mutant of RemoveOldest: the newest child is removed instead of the oldest
RemoveNewest(children) == SubSeq(children, 1, Len(children) - 1)

\* line 715: removeChild(firstChild)
RemoveOldest(children) == Tail(children)

\* Mutant of OverCapacity: the comparison is off by one
OverCapacityOffByOne(children) == Len(children) > maxLogEntries + 1

\* line 714: children.length > maxLogEntries
OverCapacity(children) == Len(children) > maxLogEntries

\* lines 714-716: the eviction loop
RECURSIVE EvictWhileOver(_)
EvictWhileOver(children) ==
    IF OverCapacity(children) THEN EvictWhileOver(RemoveOldest(children)) ELSE children

\* Mutant of LookupToolCall: the latest call of the name is tried first
LookupToolCallByNameFirst(m, toolName, timestamp) ==
    LET toolCallId == generateToolCallId(toolName, timestamp)
    IN  IF toolName \in DOMAIN m.toolCallsByName THEN m.toolCallsByName[toolName]
        ELSE IF toolCallId \in DOMAIN m.toolCallMap THEN m.toolCallMap[toolCallId]
        ELSE 0

\* lines 512-520: the call entry a tool_output is matched to, 0 when none
LookupToolCall(m, toolName, timestamp) ==
    LET toolCallId == generateToolCallId(toolName, timestamp)
    IN  IF toolCallId \in DOMAIN m.toolCallMap THEN m.toolCallMap[toolCallId]
        ELSE IF toolName \in DOMAIN m.toolCallsByName THEN m.toolCallsByName[toolName]
        ELSE 0

\* lines 522-556: the output goes into the call entry's output container
AttachOutput(m, target, message) ==
    [m EXCEPT !.logEntries[target].output =
        IF message.output_preview # "" THEN message.output_preview ELSE "[no output]"]

\* lines 563-682: how the message is rendered; "" is an empty formattedMessage
RenderKind(message, level) ==
    IF message.k = "obj"
    THEN IF message.tool_name # ""
         THEN IF level = "tool_call" THEN "banner" ELSE ""
         ELSE IF level = "agent_thinking" THEN "thinking" ELSE "json"
    ELSE IF level = "agent_thinking" THEN "thinking"
    ELSE IF message.k = "strjson" THEN "banner"
    ELSE IF message.text # "" THEN "text" ELSE ""

\* Mutant of RegistersToolCall: only a structured tool_call message is stored
RegistersToolCallStructuredOnly(message, level) ==
    message.k = "obj" /\ message.tool_name # "" /\ level = "tool_call"

\* lines 574 and 632-634: the messages whose entry is stored as a tool call
RegistersToolCall(message, level) ==
    \/ message.k = "obj" /\ message.tool_name # "" /\ level = "tool_call"
    \/ message.k = "strjson" /\ level # "agent_thinking"

\* Mutant of RegisterToolCall: the entry is stored by name only
RegisterToolCallNameOnly(m, entry, message, now) ==
    [m EXCEPT !.toolCallsByName =
                  [n \in DOMAIN m.toolCallsByName \cup {message.tool_name} |->
                      IF n = message.tool_name THEN entry ELSE m.toolCallsByName[n]]]

\* Mutant of RegisterToolCall: the first call of a name stays the latest
RegisterToolCallKeepsFirstName(m, entry, message, now) ==
    LET toolCallId == generateToolCallId(message.tool_name,
                                         TimestampOr(message.timestamp, now))
    IN  [m EXCEPT !.toolCallMap =
                      [id \in DOMAIN m.toolCallMap \cup {toolCallId} |->
                          IF id = toolCallId THEN entry ELSE m.toolCallMap[id]],
                  !.toolCallsByName =
                      [n \in DOMAIN m.toolCallsByName \cup {message.tool_name} |->
                          IF n \in DOMAIN m.toolCallsByName
                          THEN m.toolCallsByName[n] ELSE entry]]

\* lines 597-602 and 662-667: the entry being built is stored under its call id
\* and as the latest call of its tool name
RegisterToolCall(m, entry, message, now) ==
    LET toolCallId == generateToolCallId(message.tool_name,
                                         TimestampOr(message.timestamp, now))
    IN  [m EXCEPT !.toolCallMap =
                      [id \in DOMAIN m.toolCallMap \cup {toolCallId} |->
                          IF id = toolCallId THEN entry ELSE m.toolCallMap[id]],
                  !.toolCallsByName =
                      [n \in DOMAIN m.toolCallsByName \cup {message.tool_name} |->
                          IF n = message.tool_name THEN entry ELSE m.toolCallsByName[n]]]

\* lines 706-720: append the entry, then evict from the top
AppendEntry(m, entry) ==
    [m EXCEPT !.logEntries = Append(m.logEntries, entry),
              !.logContainer = EvictWhileOver(Append(m.logContainer,
                                                     Len(m.logEntries) + 1))]

\* lines 506-560: a structured tool_output goes to its call entry, if one is found
IsToolOutput(message, level) ==
    level = "tool_output" /\ message.k = "obj" /\ message.tool_name # ""

\* Mutant of addStrongSearchLog: a call that is registered takes over the output
\* shown on the call of its name registered before it
addStrongSearchLogRelinks(m, message, level, now) ==
    LET target == IF IsToolOutput(message, level)
                  THEN LookupToolCall(m, message.tool_name,
                                      TimestampOr(message.timestamp, now))
                  ELSE 0
        kind == RenderKind(message, level)
        entry == Len(m.logEntries) + 1
        registers == RegistersToolCall(message, level)
        m1 == IF registers THEN RegisterToolCall(m, entry, message, now) ELSE m
        fresh == LogEntry(level, kind, message)
        previous == IF registers /\ message.tool_name \in DOMAIN m.toolCallsByName
                    THEN m.logEntries[m.toolCallsByName[message.tool_name]].output
                    ELSE ""
    IN  IF target # 0 THEN AttachOutput(m, target, message)
        ELSE IF kind = "" THEN m1
        ELSE AppendEntry(m1, [fresh EXCEPT !.output = previous])

\* lines 497-721
addStrongSearchLog(m, message, level, now) ==
    LET target == IF IsToolOutput(message, level)
                  THEN LookupToolCall(m, message.tool_name,
                                      TimestampOr(message.timestamp, now))
                  ELSE 0
        kind == RenderKind(message, level)
        entry == Len(m.logEntries) + 1
        m1 == IF RegistersToolCall(message, level)
              THEN RegisterToolCall(m, entry, message, now) ELSE m
    IN  IF target # 0 THEN AttachOutput(m, target, message)
        ELSE IF kind = "" THEN m1
        ELSE AppendEntry(m1, LogEntry(level, kind, message))

\* addStrongSearchLog called with a string literal
LogText(m, text, level) == addStrongSearchLog(m, StrMsg(text), level, 0)

\* ------------------------------------------------------------- UI helpers
\* Mutant of updateStrongSearchProgressBar: the displayed percent never goes down
updateStrongSearchProgressBarMonotonic(m, progress, status) ==
    [m EXCEPT !.progressPercent = IF Percent(progress) > @ THEN Percent(progress) ELSE @,
              !.progressTitle = IF status # "" THEN status ELSE @]

\* lines 724-732
updateStrongSearchProgressBar(m, progress, status) ==
    [m EXCEPT !.progressPercent = Percent(progress),
              !.progressTitle = IF status # "" THEN status ELSE @]

\* lines 347-367
updateStrongSearchConnectionStatus(m, status) == [m EXCEPT !.connectionStatus = status]

\* lines 295-344: the log is emptied, the progress bar and the status reset and
\* both correlation maps replaced; the result container is not touched
resetStrongSearchUI(m) ==
    LET m1 == [m EXCEPT !.logContainer = <<>>]
        m2 == updateStrongSearchConnectionStatus(
                  updateStrongSearchProgressBar(m1, 0, ""), "disconnected")
    IN  [m2 EXCEPT !.toolCallMap = EmptyMap, !.toolCallsByName = EmptyMap]

\* ---------------------------------------------------------------- transport
\* WebSocket.close(): a socket that is connecting or open starts closing
WsClose(sock) ==
    IF sock.readyState \in {"CONNECTING", "OPEN"}
    THEN [sock EXCEPT !.readyState = "CLOSING"] ELSE sock

\* line 385: the guard of connectStrongSearchWebSocket
AlreadyConnected(m) ==
    /\ m.strongSearchSocket # NoSocket
    /\ m.sockets[m.strongSearchSocket].readyState = "OPEN"

\* Mutant of disconnectStrongSearchWebSocket: every call logs and shows the
\* disconnection, with or without a socket
disconnectAlwaysReports(m) ==
    LET m1 == IF m.strongSearchSocket # NoSocket
              THEN [m EXCEPT !.sockets[m.strongSearchSocket] = WsClose(@),
                             !.strongSearchSocket = NoSocket,
                             !.strongSearchClientId = Null]
              ELSE m
    IN  updateStrongSearchConnectionStatus(
            LogText(m1, "WebSocket disconnected", "info"), "disconnected")

\* Mutant of disconnectStrongSearchWebSocket: the reference is not cleared
disconnectKeepsReference(m) ==
    IF m.strongSearchSocket # NoSocket
    THEN [m EXCEPT !.sockets[m.strongSearchSocket] = WsClose(@),
                   !.strongSearchClientId = Null,
                   !.connectionStatus = "disconnected"]
    ELSE m

\* lines 450-458
disconnectStrongSearchWebSocket(m) ==
    IF m.strongSearchSocket # NoSocket
    THEN [m EXCEPT !.sockets[m.strongSearchSocket] = WsClose(@),
                   !.strongSearchSocket = NoSocket,
                   !.strongSearchClientId = Null,
                   !.connectionStatus = "disconnected"]
    ELSE m

\* lines 1036-1041: the catch block of startStrongSearch
StartFailed(m, why) ==
    [LogText(m, "start failed: " \o why, "error") EXCEPT !.isStrongSearching = FALSE]

\* Mutant of SendSearchRequest: a connection that has carried a request is
\* not given another one
SendSearchRequestOncePerSocket(m, query) ==
    IF m.strongSearchSocket # NoSocket
       /\ m.sockets[m.strongSearchSocket].readyState = "OPEN"
       /\ m.sockets[m.strongSearchSocket].sent = <<>>
    THEN LET payload == [codebase_name |-> m.currentStrongSearchCodebase,
                         query |-> query]
             m1 == [m EXCEPT !.sockets[m.strongSearchSocket].sent = Append(@, payload)]
         IN  updateStrongSearchProgressBar(
                 LogText(m1, "search request sent", "info"), 50, "request sent...")
    ELSE StartFailed(m, "WebSocket not connected")

\* Mutant of SendSearchRequest: the request is sent without looking at the
\* socket's readyState
SendSearchRequestAnyState(m, query) ==
    IF m.strongSearchSocket # NoSocket
    THEN LET payload == [codebase_name |-> m.currentStrongSearchCodebase,
                         query |-> query]
             m1 == [m EXCEPT !.sockets[m.strongSearchSocket].sent = Append(@, payload)]
         IN  updateStrongSearchProgressBar(
                 LogText(m1, "search request sent", "info"), 50, "request sent...")
    ELSE StartFailed(m, "WebSocket not connected")

\* lines 1024-1034: what startStrongSearch does once connect has returned true;
\* the request goes to whatever strongSearchSocket refers to at that moment
SendSearchRequest(m, query) ==
    IF m.strongSearchSocket # NoSocket
       /\ m.sockets[m.strongSearchSocket].readyState = "OPEN"
    THEN LET payload == [codebase_name |-> m.currentStrongSearchCodebase,
                         query |-> query]
             m1 == [m EXCEPT !.sockets[m.strongSearchSocket].sent = Append(@, payload)]
         IN  updateStrongSearchProgressBar(
                 LogText(m1, "search request sent", "info"), 50, "request sent...")
    ELSE StartFailed(m, "WebSocket not connected")

\* lines 384-392: connectStrongSearchWebSocket up to its first suspension. With
\* an open socket it returns true at once and the caller goes on in the same
\* task; otherwise the id fetch is issued and the call waits for it.
NewAttempt(caller, query) ==
    [caller |-> caller, query |-> query, pc |-> "awaitId", sock |-> NoSocket,
     id |-> Null]

connectStrongSearchWebSocket(m, caller, query) ==
    IF AlreadyConnected(m)
    THEN IF caller = "startStrongSearch" THEN SendSearchRequest(m, query) ELSE m
    ELSE [m EXCEPT !.attempts = Append(@, NewAttempt(caller, query))]

\* Mutant of ConnectReturnedFalse: startStrongSearch ignores a connect that
\* returned false, as openModal does
ConnectReturnedFalseIgnored(m, a) == [m EXCEPT !.attempts[a].pc = "done"]

\* What the caller of a connect attempt does when the attempt returns false
\* (lines 1020-1022) or rejects (lines 280-283, 1036): openModal ignores false
\* and logs a rejection, startStrongSearch fails either way.
ConnectReturnedFalse(m, a) ==
    LET m1 == [m EXCEPT !.attempts[a].pc = "done"]
    IN  IF m.attempts[a].caller = "startStrongSearch"
        THEN StartFailed(m1, "WebSocket connection failed") ELSE m1

ConnectRejected(m, a) ==
    LET m1 == [m EXCEPT !.attempts[a].pc = "done"]
    IN  IF m.attempts[a].caller = "startStrongSearch"
        THEN StartFailed(m1, "WebSocket connection failed")
        ELSE LogText(m1, "WebSocket connection failed, retry", "error")

ConnectResolved(m, a) ==
    LET m1 == [m EXCEPT !.attempts[a].pc = "done"]
    IN  IF m.attempts[a].caller = "startStrongSearch"
        THEN SendSearchRequest(m1, m.attempts[a].query) ELSE m1

\* ---------------------------------------------------------- caller's calls
\* lines 46-51: UI.openModal marks the modal open
UiOpenModal(m) == [m EXCEPT !.modalOpen = TRUE]

\* lines 54-81: UI.closeModal starts the fade and defers the removal of the
\* mark by 300 ms
UiCloseModal(m) == [m EXCEPT !.closeTimeouts = @ + 1]

\* lines 69-80: the deferred callback of UI.closeModal removes the mark
UiCloseTimeout(m) == [m EXCEPT !.modalOpen = FALSE, !.closeTimeouts = @ - 1]

\* lines 272-284
openModal(m, codebaseName) ==
    connectStrongSearchWebSocket(
        UiOpenModal(resetStrongSearchUI(
            [m EXCEPT !.currentStrongSearchCodebase = codebaseName])),
        "openModal", "")

\* lines 287-292
closeModal(m) ==
    [UiCloseModal(disconnectStrongSearchWebSocket(m))
        EXCEPT !.currentStrongSearchCodebase = Null, !.isStrongSearching = FALSE]

\* Mutant of startStrongSearch: without an open connection the call is refused
\* and nothing is changed
startStrongSearchRefusedWhenIdle(m, query) ==
    IF m.isStrongSearching \/ m.currentStrongSearchCodebase = Null THEN m
    ELSE IF ~AlreadyConnected(m) THEN m
    ELSE IF query = "" THEN LogText(m, "enter a query", "warning")
    ELSE LET m1 == LogText(m, "--------- new search ---------", "info")
             m2 == updateStrongSearchProgressBar(m1, 0, "preparing...")
             m3 == LogText(m2, "preparing strong search: " \o query, "info")
             m4 == [m3 EXCEPT !.isStrongSearching = TRUE]
         IN  connectStrongSearchWebSocket(m4, "startStrongSearch", query)

\* Mutant of startStrongSearch: a search that is running does not hold back
\* another start
startStrongSearchWhileSearching(m, query) ==
    IF m.currentStrongSearchCodebase = Null THEN m
    ELSE IF query = "" THEN LogText(m, "enter a query", "warning")
    ELSE LET m1 == LogText(m, "--------- new search ---------", "info")
             m2 == updateStrongSearchProgressBar(m1, 0, "preparing...")
             m3 == LogText(m2, "preparing strong search: " \o query, "info")
             m4 == [m3 EXCEPT !.isStrongSearching = TRUE]
         IN  connectStrongSearchWebSocket(m4, "startStrongSearch", query)

\* lines 992-1042, up to the first suspension; query is the trimmed input value
startStrongSearch(m, query) ==
    IF m.isStrongSearching \/ m.currentStrongSearchCodebase = Null THEN m
    ELSE IF query = "" THEN LogText(m, "enter a query", "warning")
    ELSE LET m1 == LogText(m, "--------- new search ---------", "info")
             m2 == updateStrongSearchProgressBar(m1, 0, "preparing...")
             m3 == LogText(m2, "preparing strong search: " \o query, "info")
             m4 == [m3 EXCEPT !.isStrongSearching = TRUE]
         IN  connectStrongSearchWebSocket(m4, "startStrongSearch", query)

\* lines 1045-1052
stopStrongSearch(m) ==
    IF ~m.isStrongSearching THEN m
    ELSE LET m1 == LogText(m, "trying to stop the search...", "warning")
             m2 == [disconnectStrongSearchWebSocket(m1) EXCEPT !.isStrongSearching = FALSE]
         IN  updateStrongSearchProgressBar(m2, 0, "search stopped")

\* ----------------------------------------------------- connect, continued
\* lines 376-380 and 443-446: the id fetch failed; getStrongSearchClientId logs
\* and rethrows, connectStrongSearchWebSocket shows disconnected and returns false
ClientIdFetchFailed(m, a) ==
    LET m1 == LogText(m, "cannot get client id", "error")
        m2 == updateStrongSearchConnectionStatus(m1, "disconnected")
    IN  ConnectReturnedFalse(m2, a)

\* line 399: the endpoint of the persistent connection
WsUrl(clientId) == "/ws/strong_search/" \o clientId

NewSocket(a, clientId) ==
    [readyState |-> "CONNECTING", url |-> WsUrl(clientId), attempt |-> a,
     sent |-> <<>>, wasOpen |-> FALSE]

\* Mutant of ClientIdFetched: the endpoint is built from the id held before
\* the fetch answered
ClientIdFetchedStaleId(m, a, id) ==
    LET m1 == [m EXCEPT !.strongSearchClientId = id]
        m2 == updateStrongSearchConnectionStatus(m1, "connecting")
        s == Len(m.sockets) + 1
    IN  [m2 EXCEPT !.sockets = Append(@, NewSocket(a, m.strongSearchClientId)),
                   !.strongSearchSocket = s,
                   !.attempts[a].pc = "awaitOpen",
                   !.attempts[a].sock = s,
                   !.attempts[a].id = id]

\* lines 391-403: the id arrived; it is stored, the socket is created with it
\* and stored in strongSearchSocket, and the call waits for open or error
ClientIdFetched(m, a, id) ==
    LET m1 == [m EXCEPT !.strongSearchClientId = id]
        m2 == updateStrongSearchConnectionStatus(m1, "connecting")
        s == Len(m.sockets) + 1
    IN  [m2 EXCEPT !.sockets = Append(@, NewSocket(a, m1.strongSearchClientId)),
                   !.strongSearchSocket = s,
                   !.attempts[a].pc = "awaitOpen",
                   !.attempts[a].sock = s,
                   !.attempts[a].id = id]

\* The promise of lines 404-442 settles once: the first of open and error.
AwaitsOpen(m, s) == m.attempts[m.sockets[s].attempt].pc = "awaitOpen"

\* lines 405-410, then the caller's continuation
onopen(m, s) ==
    LET m1 == updateStrongSearchConnectionStatus(m, "connected")
        m2 == LogText(m1, "WebSocket connected", "success")
    IN  IF AwaitsOpen(m, s) THEN ConnectResolved(m2, m.sockets[s].attempt) ELSE m2

\* Mutant of onclose: the disconnection is logged whether or not a search is running
oncloseAlwaysLogs(m, s) ==
    LET m1 == updateStrongSearchConnectionStatus(m, "disconnected")
        m2 == LogText(m1, "WebSocket disconnected unexpectedly", "error")
    IN  [m2 EXCEPT !.isStrongSearching = FALSE, !.strongSearchSocket = NoSocket]

\* lines 422-431
onclose(m, s) ==
    LET m1 == updateStrongSearchConnectionStatus(m, "disconnected")
        m2 == IF m.isStrongSearching
              THEN LogText(m1, "WebSocket disconnected unexpectedly", "error") ELSE m1
    IN  [m2 EXCEPT !.isStrongSearching = FALSE, !.strongSearchSocket = NoSocket]

\* lines 433-441, then the caller's continuation if the promise was pending
onerror(m, s) ==
    LET m1 == updateStrongSearchConnectionStatus(m, "disconnected")
        m2 == LogText(m1, "WebSocket connection error", "error")
        m3 == [m2 EXCEPT !.isStrongSearching = FALSE, !.strongSearchSocket = NoSocket]
    IN  IF AwaitsOpen(m, s) THEN ConnectRejected(m3, m.sockets[s].attempt) ELSE m3

\* ------------------------------------------------------------------ frames
ResultPart(part, seq, files, contents) ==
    [part |-> part, seq |-> seq, files |-> files, contents |-> contents]

\* lines 883-984: the files are rendered, the time is appended, the result tab
\* is shown and the completion is logged
RenderFiles(m, seq, files, contents) ==
    LogText([m EXCEPT !.resultContainer =
                          Append(@, ResultPart("files", seq, files, contents))],
            "search finished, result shown", "success")

\* lines 482-483: the rest of the result case of the message handler
ResultHandled(m) == [m EXCEPT !.isStrongSearching = FALSE]

\* The answer of the batch request, while there is none
NoOutcome == [kind |-> "none", missing |-> {}]

\* lines 735-880: displayStrongSearchResult up to the batch fetch. The container
\* is emptied and the answer rendered; with files and a codebase the batch
\* request is issued and the handler is suspended until it answers.
displayStrongSearchResult(m, s, seq, files) ==
    LET m1 == [m EXCEPT !.resultContainer = <<ResultPart("answer", seq, <<>>, <<>>)>>]
    IN  IF files = <<>> THEN ResultHandled(RenderFiles(m1, seq, files, <<>>))
        ELSE IF m.currentStrongSearchCodebase # Null
        THEN [m1 EXCEPT !.fetches = Append(@,
                 [seq |-> seq, sock |-> s, files |-> files,
                  codebase |-> m.currentStrongSearchCodebase, pc |-> "pending",
                  outcome |-> NoOutcome])]
        ELSE ResultHandled(RenderFiles(m1, seq, files,
                 [j \in 1..Len(files) |-> "cannot load content (no codebase or files)"]))

\* Mutant of FileContents: one missing path spoils the content of all files
FileContentsAllOrNothing(files, outcome) ==
    [j \in 1..Len(files) |->
        IF outcome.kind = "notok" THEN "error: cannot load content"
        ELSE IF outcome.kind = "neterr" THEN "error: network error while loading"
        ELSE IF outcome.missing # {} THEN "cannot load content."
        ELSE "content of " \o files[j]]

\* lines 867-877 and 926: what is shown for each file after the batch answer
FileContents(files, outcome) ==
    [j \in 1..Len(files) |->
        IF outcome.kind = "notok" THEN "error: cannot load content"
        ELSE IF outcome.kind = "neterr" THEN "error: network error while loading"
        ELSE IF files[j] \in outcome.missing THEN "cannot load content."
        ELSE "content of " \o files[j]]

\* lines 867-984 and 482-483: the handler resumes after the batch answer
BatchAnswered(m, i, outcome) ==
    LET f == m.fetches[i]
        m1 == [m EXCEPT !.fetches[i].pc = "done", !.fetches[i].outcome = outcome]
    IN  ResultHandled(RenderFiles(m1, f.seq, f.files, FileContents(f.files, outcome)))

\* Mutant of onmessage: a frame of an unknown type ends the search
onmessageUnknownEndsSearch(m, s, seq, frame, now) ==
    IF frame.type = "unparseable" THEN LogText(m, "unparseable message received", "error")
    ELSE IF frame.type = "log" THEN addStrongSearchLog(m, frame.message, frame.level, now)
    ELSE IF frame.type = "progress"
    THEN updateStrongSearchProgressBar(m, frame.progress, frame.status)
    ELSE IF frame.type = "result" THEN displayStrongSearchResult(m, s, seq, frame.files)
    ELSE IF frame.type = "error"
    THEN [addStrongSearchLog(m, frame.error, "error", now)
             EXCEPT !.isStrongSearching = FALSE]
    ELSE [LogText(m, "unknown message: " \o frame.type, "warning")
             EXCEPT !.isStrongSearching = FALSE]

\* Mutant of onmessage: a payload that cannot be parsed ends the search
onmessageMalformedEndsSearch(m, s, seq, frame, now) ==
    IF frame.type = "unparseable"
    THEN [LogText(m, "unparseable message received", "error")
             EXCEPT !.isStrongSearching = FALSE]
    ELSE IF frame.type = "log" THEN addStrongSearchLog(m, frame.message, frame.level, now)
    ELSE IF frame.type = "progress"
    THEN updateStrongSearchProgressBar(m, frame.progress, frame.status)
    ELSE IF frame.type = "result" THEN displayStrongSearchResult(m, s, seq, frame.files)
    ELSE IF frame.type = "error"
    THEN [addStrongSearchLog(m, frame.error, "error", now)
             EXCEPT !.isStrongSearching = FALSE]
    ELSE LogText(m, "unknown message: " \o frame.type, "warning")

\* lines 412-420 and 461-494: one inbound frame
onmessage(m, s, seq, frame, now) ==
    IF frame.type = "unparseable" THEN LogText(m, "unparseable message received", "error")
    ELSE IF frame.type = "log" THEN addStrongSearchLog(m, frame.message, frame.level, now)
    ELSE IF frame.type = "progress"
    THEN updateStrongSearchProgressBar(m, frame.progress, frame.status)
    ELSE IF frame.type = "result" THEN displayStrongSearchResult(m, s, seq, frame.files)
    ELSE IF frame.type = "error"
    THEN [addStrongSearchLog(m, frame.error, "error", now)
             EXCEPT !.isStrongSearching = FALSE]
    ELSE LogText(m, "unknown message: " \o frame.type, "warning")

\* ------------------------------------------------------------------ Init
Init ==
    /\ currentStrongSearchCodebase = Null
    /\ strongSearchSocket = NoSocket
    /\ strongSearchClientId = Null
    /\ isStrongSearching = FALSE
    /\ toolCallMap = EmptyMap
    /\ toolCallsByName = EmptyMap
    /\ logEntries = <<>>
    /\ logContainer = <<>>
    /\ progressPercent = 0
    /\ progressTitle = ""
    /\ connectionStatus = "disconnected"
    /\ resultContainer = <<>>
    /\ sockets = <<>>
    /\ attempts = <<>>
    /\ fetches = <<>>
    /\ clock = 0
    /\ steps = 0
    /\ framesRecv = 0
    /\ ev = Event("init", "", NoSocket, NoFrame)
    /\ sessionStart = 0
    /\ connsAtDrop = <<>>
    /\ mcpReplies = <<>>
    /\ modalOpen = FALSE
    /\ closeTimeouts = 0
    /\ indexingPolls = [c \in Codebases |-> NoTimer]
    /\ intervals = <<>>
    /\ pollTasks = <<>>
    /\ server = [c \in Codebases |->
                     [present |-> TRUE, indexing_status |-> "completed", indexed |-> TRUE,
                      analyzer_ready |-> TRUE, run |-> 0]]
    /\ card = [c \in Codebases |->
                   [isIndexing |-> FALSE, indexed |-> TRUE, analyzerReady |-> TRUE]]

\* --------------------------------------------------------------- actions
\* What every task records: itself, and the two history variables
Ran(op, arg, s, frame) ==
    /\ ev' = Event(op, arg, s, frame)
    /\ UNCHANGED mcpReplies
    /\ UNCHANGED pollVars
    /\ steps' = steps + 1
    /\ sessionStart' = IF op = "openModal" THEN Len(logEntries) ELSE sessionStart
    /\ connsAtDrop' =
           IF op = "openModal" \/ (op = "startStrongSearch" /\ isStrongSearching')
           THEN <<>>
           ELSE IF op \in {"onclose", "onerror"} /\ isStrongSearching
           THEN <<Len(sockets)>>
           ELSE connsAtDrop

Called(op, arg) == Ran(op, arg, NoSocket, NoFrame) /\ UNCHANGED <<framesRecv, clock>>

Happened(op, s) == Ran(op, "", s, NoFrame) /\ UNCHANGED <<framesRecv, clock>>

OpenModal(c) ==
    /\ Commit(openModal(Cur, c))
    /\ Called("openModal", c)

CloseModal ==
    /\ Commit(closeModal(Cur))
    /\ Called("closeModal", "")

StartStrongSearch(q) ==
    /\ Commit(startStrongSearch(Cur, q))
    /\ Called("startStrongSearch", q)

StopStrongSearch ==
    /\ Commit(stopStrongSearch(Cur))
    /\ Called("stopStrongSearch", "")

\* The answer of GET /strong_search/new_client_id: a failure (network error or
\* a status that is not ok) ...
IdFetchFail(a) ==
    /\ attempts[a].pc = "awaitId"
    /\ Commit(ClientIdFetchFailed(Cur, a))
    /\ Happened("idFetchFail", NoSocket)

\* ... or a JSON object whose client_id is id (undefined when it has none)
IdFetchOk(a, id) ==
    /\ attempts[a].pc = "awaitId"
    /\ Commit(ClientIdFetched(Cur, a, id))
    /\ Happened("idFetchOk", Len(sockets) + 1)

\* The socket's open event
SocketOpen(s) ==
    /\ sockets[s].readyState = "CONNECTING"
    /\ Commit(onopen([Cur EXCEPT !.sockets[s].readyState = "OPEN",
                                 !.sockets[s].wasOpen = TRUE], s))
    /\ Happened("onopen", s)

\* The connection fails (it could not be established, it dropped, or close()
\* was called before it was established): error then close, in one task
CanFail(sock) ==
    IF sock.readyState = "CLOSING" THEN ~sock.wasOpen
    ELSE sock.readyState \in {"CONNECTING", "OPEN"}

SocketFail(s) ==
    /\ CanFail(sockets[s])
    /\ Commit(onclose(onerror([Cur EXCEPT !.sockets[s].readyState = "CLOSED"], s), s))
    /\ Happened("onerror", s)

\* The connection closes cleanly: the server closed it, or the closing
\* handshake that close() started has finished
CanClose(sock) ==
    IF sock.readyState = "CLOSING" THEN sock.wasOpen ELSE sock.readyState = "OPEN"

SocketClose(s) ==
    /\ CanClose(sockets[s])
    /\ Commit(onclose([Cur EXCEPT !.sockets[s].readyState = "CLOSED"], s))
    /\ Happened("onclose", s)

\* A frame arrives on an open socket
RecvFrame(s, frame) ==
    /\ sockets[s].readyState = "OPEN"
    /\ Commit(onmessage(Cur, s, framesRecv + 1, frame, clock))
    /\ framesRecv' = framesRecv + 1
    /\ Ran("onmessage", "", s, frame)
    /\ UNCHANGED clock

\* The answer of POST /codebases/{name}/files/batch: a status that is not ok, a
\* network error, or contents in which some of the paths may be missing
BatchOutcomes(files) ==
    {[kind |-> k, missing |-> {}] : k \in {"notok", "neterr"}}
    \cup {[kind |-> "ok", missing |-> S] : S \in SUBSET {files[j] : j \in 1..Len(files)}}

BatchFetchDone(i, outcome) ==
    /\ fetches[i].pc = "pending"
    /\ Commit(BatchAnswered(Cur, i, outcome))
    /\ Happened("batchFetchDone", fetches[i].sock)

\* A 300 ms timeout of UI.closeModal fires
ModalCloseTimeout ==
    /\ closeTimeouts > 0
    /\ Commit(UiCloseTimeout(Cur))
    /\ Called("closeTimeout", "")

\* Time passes
Tick ==
    /\ clock < MaxClock
    /\ clock' = clock + 1
    /\ Commit(Cur)
    /\ Ran("tick", "", NoSocket, NoFrame)
    /\ UNCHANGED framesRecv

\* ------------------------------------------------------------ the MCP server
\* README.md, lines 63-80: the tools the server is documented to provide
ReadmeTools ==
    {"list_codebases", "standard_search", "strong_search", "get_files",
     "get_file_content", "batch_get_file_content", "upload_codebase",
     "index_codebase", "delete_codebase", "upload_file", "delete_file",
     "find_references", "get_websocket_client_id", "websocket_strong_search"}

\* part_007, lines 197-368: the names in the reply of the ListTools handler
ListedTools ==
    {"list_codebases", "standard_search", "strong_search", "get_files",
     "get_file_content", "batch_get_file_content", "find_references", "get_ast",
     "search_text"}

\* part_007, lines 374-888: the case labels of the CallTool handler
HandledTools ==
    {"list_codebases", "standard_search", "strong_search", "get_files",
     "get_file_content", "batch_get_file_content", "find_references", "get_ast",
     "search_text"}

\* part_007, lines 439-850: the backend endpoint each tool's operation calls
OperationEndpoint(name) ==
    CASE name = "list_codebases" -> "GET /codebases/indexed"
      [] name = "standard_search" -> "POST /search"
      [] name = "strong_search" -> "POST /strong_search"
      [] name = "get_files" -> "GET /codebases/{name}/files"
      [] name = "get_file_content" -> "GET /codebases/{name}/files/{path}"
      [] name = "batch_get_file_content" -> "POST /codebases/{name}/files/batch"
      [] name = "find_references" -> "POST /codebases/{name}/references/find"
      [] name = "get_ast" -> "GET /codebases/{name}/ast"
      [] name = "search_text" -> "GET /codebases/{name}/search/text"
      [] OTHER -> ""

\* What GET /codebases/indexed can answer: a failure, or a list of codebases
\* each with its indexed mark
IndexedFailure == [ok |-> FALSE, list |-> {}]

IndexedAnswers ==
    {IndexedFailure}
    \cup {[ok |-> TRUE, list |-> L] :
             L \in {{}, {[name |-> "repo1", indexed |-> TRUE]},
                    {[name |-> "repo1", indexed |-> FALSE]},
                    {[name |-> "other", indexed |-> TRUE]}}}

\* Mutant of checkCodebaseExists: a codebase that is listed counts, indexed or not
checkCodebaseExistsAnyListed(codebase_name, answer) ==
    /\ answer.ok
    /\ \E codebase \in answer.list : codebase.name = codebase_name

\* part_007, lines 156-168
checkCodebaseExists(codebase_name, answer) ==
    /\ answer.ok
    /\ \E codebase \in answer.list :
           codebase.name = codebase_name /\ codebase.indexed = TRUE

ListToolsReply == [request |-> "tools/list", name |-> "", tools |-> ListedTools,
                   kind |-> "result", text |-> "", codebase |-> "",
                   indexed |-> IndexedFailure, calls |-> <<>>]

\* part_007, lines 371-895: the reply to a call of the tool called name. A tool
\* that is handled validates its arguments (all but list_codebases), checks
\* that the codebase exists, and calls the API; a name without a case is
\* answered by the McpError of the default branch. calls lists the backend
\* requests the handler made; answer is what GET /codebases/indexed returns
\* when it is asked.
CallToolReply(name, argsValid, codebase_name, answer, apiOk) ==
    LET reply(kind, text, asked, calls) ==
            [request |-> "tools/call", name |-> name, tools |-> {},
             kind |-> kind, text |-> text, codebase |-> codebase_name,
             indexed |-> IF asked THEN answer ELSE IndexedFailure, calls |-> calls]
        check == "GET /codebases/indexed"
    IN  IF name \notin HandledTools
        THEN reply("McpError", "Unknown tool: " \o name, FALSE, <<>>)
        ELSE IF name = "list_codebases"
        THEN IF answer.ok THEN reply("result", "content", TRUE, <<check>>)
             ELSE reply("isError", "request failed", TRUE, <<check>>)
        ELSE IF ~argsValid THEN reply("McpError", "Invalid arguments", FALSE, <<>>)
        ELSE IF ~checkCodebaseExists(codebase_name, answer)
        THEN reply("isError", "codebase not found", TRUE, <<check>>)
        ELSE IF ~apiOk
        THEN reply("isError", "request failed", TRUE, <<check, OperationEndpoint(name)>>)
        ELSE reply("result", "content", TRUE, <<check, OperationEndpoint(name)>>)

mcpUnchanged ==
    UNCHANGED <<currentStrongSearchCodebase, strongSearchSocket, strongSearchClientId,
                isStrongSearching, toolCallMap, toolCallsByName, logEntries,
                logContainer, progressPercent, progressTitle, connectionStatus,
                resultContainer, sockets, attempts, fetches, clock, steps, framesRecv,
                ev, sessionStart, connsAtDrop, pollVars, modalOpen, closeTimeouts>>

ListTools ==
    /\ Len(mcpReplies) < MaxMcpRequests
    /\ mcpReplies' = Append(mcpReplies, ListToolsReply)
    /\ mcpUnchanged

CallTool(name, argsValid, codebase_name, answer, apiOk) ==
    /\ Len(mcpReplies) < MaxMcpRequests
    /\ mcpReplies' = Append(mcpReplies,
                            CallToolReply(name, argsValid, codebase_name, answer, apiOk))
    /\ mcpUnchanged

NextMcp ==
    \/ ListTools
    \/ \E name \in ReadmeTools \cup ListedTools \cup {"no_such_tool"} :
           \E argsValid, apiOk \in BOOLEAN : \E answer \in IndexedAnswers :
               CallTool(name, argsValid, "repo1", answer, apiOk)

SpecMcp == Init /\ [][NextMcp]_vars

\* ------------------------------------------------ the modal's open mark
\* The modal is opened and closed (its close button and its backdrop can be
\* clicked while it is shown), its connection is set up, and the timeouts of
\* UI.closeModal fire at any later moment.
ModalStepsLeft == steps < MaxModalSteps

NextModal ==
    \/ \E c \in Codebases : ModalStepsLeft /\ OpenModal(c)
    \/ ModalStepsLeft /\ currentStrongSearchCodebase # Null /\ CloseModal
    \/ ModalStepsLeft /\ ModalCloseTimeout
    \/ \E a \in 1..Len(attempts) : ModalStepsLeft /\ IdFetchOk(a, "abc123")
    \/ \E s \in 1..Len(sockets) : ModalStepsLeft /\ SocketOpen(s)

SpecModal == Init /\ [][NextModal]_vars

\* ------------------------------------------- the codebase manager's polling
\* The CodebaseManager module of codebase-manager.js (part_001): its map of
\* polling timers, the timers themselves, the cards, and the requests it has
\* sent, each with the handler that resumes when the answer arrives.
PollCur == [indexingPolls |-> indexingPolls, intervals |-> intervals,
            pollTasks |-> pollTasks, card |-> card]

PollCommit(p) ==
    /\ indexingPolls' = p.indexingPolls
    /\ intervals' = p.intervals
    /\ pollTasks' = p.pollTasks
    /\ card' = p.card

\* The answer a request has got: none yet, a failure of the fetch itself, a
\* status that is not ok, or ok with what the backend held for the codebase
NoAnswer == [kind |-> "none", present |-> FALSE, indexing_status |-> "",
             indexed |-> FALSE, analyzer_ready |-> FALSE, run |-> 0]

AnswerOf(kind, held) ==
    [kind |-> kind, present |-> held.present, indexing_status |-> held.indexing_status,
     indexed |-> held.indexed, analyzer_ready |-> held.analyzer_ready, run |-> held.run]

NewTask(kind, codebaseName) ==
    [kind |-> kind, codebase |-> codebaseName, pc |-> "request", answer |-> NoAnswer]

\* clearInterval(id); clearInterval(undefined) does nothing
clearInterval(p, id) ==
    IF id # NoTimer THEN [p EXCEPT !.intervals[id].active = FALSE] ELSE p

\* part_001, lines 180-181, 188-189, 219-220 and 232-233:
\* clearInterval(indexingPolls[name]); delete indexingPolls[name]
StopPolling(p, codebaseName) ==
    [clearInterval(p, p.indexingPolls[codebaseName])
        EXCEPT !.indexingPolls[codebaseName] = NoTimer]

\* part_001, lines 250-319: the status badge and the index button of the card
updateCardStatus(p, codebaseName, indexing, indexed, analyzerReady) ==
    [p EXCEPT !.card[codebaseName] =
        [isIndexing |-> indexing, indexed |-> indexed, analyzerReady |-> analyzerReady]]

\* Mutant of startPollingIndexStatus: a timer that exists is left running
startPollingIndexStatusKeepsOld(p, codebaseName) ==
    [p EXCEPT !.intervals = Append(@, [codebase |-> codebaseName, active |-> TRUE]),
              !.indexingPolls[codebaseName] = Len(p.intervals) + 1]

\* part_001, lines 197-206: the timer that exists is cleared and a new one set
startPollingIndexStatus(p, codebaseName) ==
    LET p1 == clearInterval(p, p.indexingPolls[codebaseName])
    IN  [p1 EXCEPT !.intervals = Append(@, [codebase |-> codebaseName, active |-> TRUE]),
                   !.indexingPolls[codebaseName] = Len(p.intervals) + 1]

\* part_001, lines 245-247
isIndexing(p, codebaseName) == p.indexingPolls[codebaseName] # NoTimer

\* part_001, lines 161-171: the confirmed click, up to the POST .../index
handleReindexCodebase(p, codebaseName) ==
    LET p1 == updateCardStatus(p, codebaseName, TRUE, FALSE, FALSE)
        p2 == startPollingIndexStatus(p1, codebaseName)
    IN  [p2 EXCEPT !.pollTasks = Append(@, NewTask("reindex", codebaseName))]

\* part_001, lines 172-192: the POST answered; a status that is not ok and a
\* failed fetch both restore the card and stop the polling
ReindexAnswered(p, i) ==
    LET t == p.pollTasks[i]
    IN  IF t.answer.kind = "ok" THEN p
        ELSE StopPolling(updateCardStatus(p, t.codebase, FALSE, FALSE, FALSE), t.codebase)

\* part_001, lines 346-359: fetchCodebases up to the GET /codebases
fetchCodebases(p) == [p EXCEPT !.pollTasks = Append(@, NewTask("fetchCodebases", ""))]

\* part_001, lines 373-376 and 511-513: a codebase that is indexing and has no
\* timer gets one
StartPollingIfIndexing(p, codebaseName, held) ==
    IF held.indexing_status = "indexing" /\ ~isIndexing(p, codebaseName)
    THEN startPollingIndexStatus(p, codebaseName) ELSE p

\* part_001, lines 388-515: the card of a codebase is built from the answer
renderCodebaseCards(p, codebaseName, held) ==
    StartPollingIfIndexing(
        updateCardStatus(p, codebaseName, held.indexing_status = "indexing",
                         held.indexed, held.analyzer_ready),
        codebaseName, held)

\* part_001, lines 360-384: the list arrived; the cards are rendered, then the
\* codebases are walked once more. One codebase is listed, or none.
FetchCodebasesAnswered(p, i) ==
    LET a == p.pollTasks[i].answer
        name == CHOOSE c \in Codebases : TRUE
    IN  IF a.kind # "ok" \/ ~a.present THEN p
        ELSE StartPollingIfIndexing(renderCodebaseCards(p, name, a), name, a)

\* part_001, lines 206-241: the handler of a poll tick after its GET /codebases
PollAnswered(p, i) ==
    LET t == p.pollTasks[i]
        a == t.answer
    IN  IF a.kind # "ok" THEN p
        ELSE IF ~a.present THEN StopPolling(p, t.codebase)
        ELSE LET p1 == updateCardStatus(p, t.codebase, a.indexing_status = "indexing",
                                        a.indexed, a.analyzer_ready)
             IN  IF a.indexing_status # "indexing" /\ a.analyzer_ready
                 THEN fetchCodebases(StopPolling(p1, t.codebase))
                 ELSE p1

PollStepsLeft == steps < MaxPollSteps

\* Everything but the polling state and the task counter stays as it is
pollUnchanged ==
    UNCHANGED <<currentStrongSearchCodebase, strongSearchSocket, strongSearchClientId,
                isStrongSearching, toolCallMap, toolCallsByName, logEntries,
                logContainer, progressPercent, progressTitle, connectionStatus,
                resultContainer, sockets, attempts, fetches, clock, framesRecv,
                ev, sessionStart, connsAtDrop, mcpReplies, modalOpen, closeTimeouts>>

PollStep == steps' = steps + 1 /\ pollUnchanged

\* The index button of a card is clicked and the dialog confirmed; the button
\* is disabled while the card shows the codebase as indexing
HandleReindexCodebase(c) ==
    /\ ~card[c].isIndexing
    /\ PollCommit(handleReindexCodebase(PollCur, c))
    /\ UNCHANGED server
    /\ PollStep

\* The list is refreshed (on load, after an upload)
FetchCodebases ==
    /\ PollCommit(fetchCodebases(PollCur))
    /\ UNCHANGED server
    /\ PollStep

\* A timer that is active fires: the GET /codebases of the tick is sent
PollTick(t) ==
    /\ intervals[t].active
    /\ PollCommit([PollCur EXCEPT !.pollTasks =
                      Append(@, NewTask("tick", intervals[t].codebase))])
    /\ UNCHANGED server
    /\ PollStep

\* The backend handles a request: a GET /codebases reads what it holds, a
\* POST .../index that succeeds starts an indexing run; either may fail
BackendHandles(i, kind) ==
    LET t == pollTasks[i]
        c == IF t.kind = "fetchCodebases" THEN CHOOSE x \in Codebases : TRUE
             ELSE t.codebase
        starts == t.kind = "reindex" /\ kind = "ok"
        held == IF starts
                THEN [server[c] EXCEPT !.indexing_status = "indexing",
                                       !.analyzer_ready = FALSE, !.run = @ + 1]
                ELSE server[c]
    IN  /\ t.pc = "request"
        /\ server' = [server EXCEPT ![c] = held]
        /\ pollTasks' = [pollTasks EXCEPT ![i].pc = "response",
                                          ![i].answer = AnswerOf(kind, held)]
        /\ UNCHANGED <<indexingPolls, intervals, card>>
        /\ PollStep

\* The answer arrives and the handler that awaited it resumes
TaskResumes(i) ==
    LET t == pollTasks[i]
        p == [PollCur EXCEPT !.pollTasks[i].pc = "done"]
    IN  /\ t.pc = "response"
        /\ PollCommit(CASE t.kind = "reindex" -> ReindexAnswered(p, i)
                        [] t.kind = "fetchCodebases" -> FetchCodebasesAnswered(p, i)
                        [] t.kind = "tick" -> PollAnswered(p, i))
        /\ UNCHANGED server
        /\ PollStep

\* The backend's indexing run ends, with or without an index
IndexingEnds(c, indexed) ==
    /\ server[c].indexing_status = "indexing"
    /\ server' = [server EXCEPT ![c].indexing_status = "completed",
                                ![c].indexed = indexed]
    /\ UNCHANGED <<indexingPolls, intervals, pollTasks, card>>
    /\ PollStep

\* The backend's analyzer becomes ready
AnalyzerReady(c) ==
    /\ ~server[c].analyzer_ready
    /\ server' = [server EXCEPT ![c].analyzer_ready = TRUE]
    /\ UNCHANGED <<indexingPolls, intervals, pollTasks, card>>
    /\ PollStep

\* The codebase is deleted at the backend
CodebaseDeleted(c) ==
    /\ server[c].present
    /\ server' = [server EXCEPT ![c].present = FALSE]
    /\ UNCHANGED <<indexingPolls, intervals, pollTasks, card>>
    /\ PollStep

NextPoll ==
    \/ \E c \in Codebases : PollStepsLeft /\ HandleReindexCodebase(c)
    \/ PollStepsLeft /\ FetchCodebases
    \/ \E t \in 1..Len(intervals) : PollStepsLeft /\ PollTick(t)
    \/ \E i \in 1..Len(pollTasks) : \E kind \in {"ok", "notok", "neterr"} :
           PollStepsLeft /\ BackendHandles(i, kind)
    \/ \E i \in 1..Len(pollTasks) : PollStepsLeft /\ TaskResumes(i)
    \/ \E c \in Codebases : \E indexed \in BOOLEAN : PollStepsLeft /\ IndexingEnds(c, indexed)
    \/ \E c \in Codebases : PollStepsLeft /\ AnalyzerReady(c)
    \/ \E c \in Codebases : PollStepsLeft /\ CodebaseDeleted(c)

SpecPoll == Init /\ [][NextPoll]_vars

\* --------------------------------------------------- the lifecycle, bounded
LifeFrames == {ProgressFrame(500, ""), ResultFrame(<<"a.py">>), ErrorFrame("boom")}

StepsLeft == steps < MaxSteps

Next ==
    \/ \E c \in Codebases : StepsLeft /\ OpenModal(c)
    \/ StepsLeft /\ CloseModal
    \/ \E q \in Queries : StepsLeft /\ StartStrongSearch(q)
    \/ StepsLeft /\ StopStrongSearch
    \/ \E a \in 1..Len(attempts) : StepsLeft /\ IdFetchFail(a)
    \/ \E a \in 1..Len(attempts) : \E id \in ClientIds : StepsLeft /\ IdFetchOk(a, id)
    \/ \E s \in 1..Len(sockets) : StepsLeft /\ SocketOpen(s)
    \/ \E s \in 1..Len(sockets) : StepsLeft /\ SocketFail(s)
    \/ \E s \in 1..Len(sockets) : StepsLeft /\ SocketClose(s)
    \/ \E s \in 1..Len(sockets) : \E f \in LifeFrames : StepsLeft /\ RecvFrame(s, f)
    \/ \E i \in 1..Len(fetches) : \E o \in {[kind |-> "ok", missing |-> {}]} :
           StepsLeft /\ BatchFetchDone(i, o)

Spec == Init /\ [][Next]_vars

\* ------------------------------------------------- the client id collaborator
\* line 375: data.client_id of an answer that has no such field; the template
\* string of line 399 renders it as this text
Undefined == "undefined"

\* The collaborator answers with an id, with a body that has no client_id, or
\* fails; the sockets open or fail.
NextId ==
    \/ \E c \in Codebases : StepsLeft /\ OpenModal(c)
    \/ \E q \in Queries : StepsLeft /\ StartStrongSearch(q)
    \/ \E a \in 1..Len(attempts) : \E id \in ClientIds \cup {Undefined} :
           StepsLeft /\ IdFetchOk(a, id)
    \/ \E a \in 1..Len(attempts) : StepsLeft /\ IdFetchFail(a)
    \/ \E s \in 1..Len(sockets) : StepsLeft /\ SocketOpen(s)
    \/ \E s \in 1..Len(sockets) : StepsLeft /\ SocketFail(s)

SpecId == Init /\ [][NextId]_vars

\* ----------------------------------------------- correlation, one connection
\* The modal is opened and connected; then log frames of the tool levels
\* arrive, the clock may advance, and the modal may be opened again, which
\* resets the maps.
CorrFrames ==
    {LogFrame("tool_call", ObjMsg(n, t, "")) :
        n \in ToolNames, t \in Timestamps \cup {NoTimestamp}}
    \cup {LogFrame("tool_output", ObjMsg(n, t, "no matches")) :
        n \in ToolNames, t \in Timestamps \cup {NoTimestamp}}
    \cup {LogFrame("tool_call", JsonStrMsg("grep", 1000)),
          LogFrame("tool_call_decision", ObjMsg("grep", 1000, "")),
          LogFrame("info", StrMsg("hello")),
          LogFrame("info", JsonStrMsg("grep", 1000)),
          LogFrame("tool_output", ObjMsg("grep", 1000, "early"))}

NextCorr ==
    \/ \E c \in Codebases :
           /\ attempts = <<>> \/ (AlreadyConnected(Cur) /\ toolCallMap # EmptyMap)
           /\ OpenModal(c)
    \/ \E a \in 1..Len(attempts) : IdFetchOk(a, "abc123")
    \/ \E s \in 1..Len(sockets) : SocketOpen(s)
    \/ \E s \in 1..Len(sockets) : \E f \in CorrFrames :
           framesRecv < MaxCorrFrames /\ RecvFrame(s, f)
    \/ Tick

SpecCorr == Init /\ [][NextCorr]_vars

\* ------------------------------------------------ the log store, one connection
\* The modal is opened and connected; then up to MaxFlood log frames arrive.
\* The first MaxSpecial of them may be a tool call or a tool call decision, and
\* a tool output may arrive at any time while the latest call has no output yet.
FloodFrame == LogFrame("info", StrMsg("line"))

EarlyFrames ==
    {LogFrame("tool_call", ObjMsg("grep", 1000, "")),
     LogFrame("tool_call_decision", ObjMsg("grep", 1000, ""))}

AwaitedOutputs ==
    IF "grep" \in DOMAIN toolCallsByName /\ logEntries[toolCallsByName["grep"]].output = ""
    THEN {LogFrame("tool_output", ObjMsg("grep", 1000, "no matches"))}
    ELSE {}

NextLog ==
    \/ \E c \in Codebases : attempts = <<>> /\ OpenModal(c)
    \/ \E a \in 1..Len(attempts) : IdFetchOk(a, "abc123")
    \/ \E s \in 1..Len(sockets) : SocketOpen(s)
    \/ \E s \in 1..Len(sockets) : framesRecv < MaxFlood /\ RecvFrame(s, FloodFrame)
    \/ \E s \in 1..Len(sockets) : \E f \in EarlyFrames :
           framesRecv < MaxSpecial /\ RecvFrame(s, f)
    \/ \E s \in 1..Len(sockets) : \E f \in AwaitedOutputs :
           framesRecv < MaxFlood /\ RecvFrame(s, f)

SpecLog == Init /\ [][NextLog]_vars

\* ------------------------------------------------- results, one connection
\* The modal is opened and connected and a search is started; result frames
\* with no, one or two relevant files arrive while a search is running, and
\* each batch request is answered in any of the ways it can be.
ResultFrames ==
    {ResultFrame(<<>>), ResultFrame(<<"a.py">>), ResultFrame(<<"a.py", "b.py">>)}

NextResult ==
    \/ \E c \in Codebases : attempts = <<>> /\ OpenModal(c)
    \/ \E a \in 1..Len(attempts) : IdFetchOk(a, "abc123")
    \/ \E s \in 1..Len(sockets) : SocketOpen(s)
    \/ /\ AlreadyConnected(Cur) /\ ~isStrongSearching /\ framesRecv < MaxResultFrames
       /\ StartStrongSearch("auth flow")
    \/ \E s \in 1..Len(sockets) : \E f \in ResultFrames :
           /\ isStrongSearching /\ framesRecv < MaxResultFrames
           /\ RecvFrame(s, f)
    \/ \E i \in 1..Len(fetches) : \E o \in BatchOutcomes(fetches[i].files) :
           BatchFetchDone(i, o)

SpecResult == Init /\ [][NextResult]_vars

\* ------------------------------------ results that resume in a later search
\* The modal is opened and closed, searches are started and stopped, the id
\* fetch and the sockets succeed; a result frame with one file arrives and its
\* batch request is answered at any later moment. The caller opens and starts
\* only while no connect is under way, so connects never overlap.
ResumeStepsLeft == steps < MaxResumeSteps

NoConnectPending == \A a \in 1..Len(attempts) : attempts[a].pc \notin {"awaitId", "awaitOpen"}

NextResume ==
    \/ \E c \in Codebases : ResumeStepsLeft /\ NoConnectPending /\ OpenModal(c)
    \/ ResumeStepsLeft /\ currentStrongSearchCodebase # Null /\ CloseModal
    \/ /\ ResumeStepsLeft /\ NoConnectPending /\ ~isStrongSearching
       /\ StartStrongSearch("auth flow")
    \/ ResumeStepsLeft /\ isStrongSearching /\ StopStrongSearch
    \/ \E a \in 1..Len(attempts) : ResumeStepsLeft /\ IdFetchOk(a, "abc123")
    \/ \E s \in 1..Len(sockets) : ResumeStepsLeft /\ SocketOpen(s)
    \/ \E s \in 1..Len(sockets) :
           /\ ResumeStepsLeft /\ isStrongSearching /\ fetches = <<>>
           /\ RecvFrame(s, ResultFrame(<<"a.py">>))
    \/ \E i \in 1..Len(fetches) :
           ResumeStepsLeft /\ BatchFetchDone(i, [kind |-> "ok", missing |-> {}])

SpecResume == Init /\ [][NextResume]_vars

\* -------------------------------------------- the protocol, one connection
\* The modal is opened and connected and searches are started; frames of every
\* type arrive: progress with fractions inside and outside 0..1 (in
\* thousandths), errors with a text, with an empty text and with the JSON text
\* of a tool call, a frame of an unknown type, an unparseable payload, a tool
\* call and its output.
Fractions == {-200, 0, 4, 5, 500, 994, 995, 1000, 1500}

ProtocolFrames ==
    {ProgressFrame(f, "") : f \in Fractions}
    \cup {ProgressFrame(1500, "late"),
          ErrorFrame("boom"), ErrorFrame(""), ErrorFrameMsg(JsonStrMsg("grep", 1000)),
          UnknownFrame, MalformedFrame,
          LogFrame("tool_call", ObjMsg("grep", 1000, "")),
          LogFrame("tool_output", ObjMsg("grep", 1000, "no matches"))}

NextProtocol ==
    \/ \E c \in Codebases : attempts = <<>> /\ OpenModal(c)
    \/ \E a \in 1..Len(attempts) : IdFetchOk(a, "abc123")
    \/ \E s \in 1..Len(sockets) : SocketOpen(s)
    \/ /\ AlreadyConnected(Cur) /\ ~isStrongSearching /\ framesRecv < MaxProtocolFrames
       /\ StartStrongSearch("auth flow")
    \/ \E s \in 1..Len(sockets) : \E f \in ProtocolFrames :
           framesRecv < MaxProtocolFrames /\ RecvFrame(s, f)

SpecProtocol == Init /\ [][NextProtocol]_vars

\* ------------------------------------------------------------------ claims
progVars == <<currentStrongSearchCodebase, strongSearchSocket, strongSearchClientId,
              isStrongSearching, toolCallMap, toolCallsByName, logEntries, logContainer,
              progressPercent, progressTitle, connectionStatus, resultContainer,
              sockets, attempts, fetches, modalOpen>>

\* The entries of the current session (since the last reset) that are tool
\* call banners built from a message with this name and timestamp
CallEntries(name, timestamp) ==
    {e \in (sessionStart + 1)..Len(logEntries) :
        /\ logEntries[e].kind = "banner"
        /\ logEntries[e].tool_name = name
        /\ logEntries[e].timestamp = timestamp}

Latest(S) == CHOOSE e \in S : \A d \in S : d <= e

\* The task that runs in this step is the handling of a structured tool_output
IsOutputStep(e) ==
    /\ e.op = "onmessage"
    /\ e.frame.type = "log"
    /\ e.frame.level = "tool_output"
    /\ e.frame.message.k = "obj"
    /\ e.frame.message.tool_name # ""

\* C1: a tool_output frame that carries the (tool_name, timestamp) of a tool
\* call received earlier in the session is attached to the entry of the latest
\* such call, no other entry changes, and the log container keeps its children:
\* nothing is appended for the output.
C1_OutputAttachedToCall ==
    [][LET msg == ev'.frame.message
           calls == CallEntries(msg.tool_name, msg.timestamp)
       IN  (IsOutputStep(ev') /\ msg.timestamp # NoTimestamp /\ calls # {})
           => /\ logContainer' = logContainer
              /\ Len(logEntries') = Len(logEntries)
              /\ \A e \in 1..Len(logEntries) :
                     logEntries'[e] = IF e = Latest(calls)
                                      THEN [logEntries[e] EXCEPT !.output = msg.output_preview]
                                      ELSE logEntries[e]]_vars

\* C1 witness: the output of the call (n, t) was attached to that call's entry
\* although a later call of the same tool, with another timestamp, exists
C1_Witness ==
    /\ IsOutputStep(ev)
    /\ ev.frame.message.timestamp # NoTimestamp
    /\ \E e \in CallEntries(ev.frame.message.tool_name, ev.frame.message.timestamp) :
           /\ logEntries[e].output = ev.frame.message.output_preview
           /\ \E d \in (e + 1)..Len(logEntries) :
                  /\ logEntries[d].kind = "banner"
                  /\ logEntries[d].tool_name = logEntries[e].tool_name
                  /\ logEntries[d].timestamp # logEntries[e].timestamp
                  /\ logEntries[d].output = ""
    /\ Len(logContainer) = Len(logEntries)

\* C2 (as claimed): a structured tool_output that neither toolCallMap nor
\* toolCallsByName has a record for is appended as an entry of its own, so the
\* log grows by exactly one entry.
C2_UnmatchedOutputAppended ==
    [][LET msg == ev'.frame.message
           id == generateToolCallId(msg.tool_name, TimestampOr(msg.timestamp, clock))
       IN  (/\ IsOutputStep(ev')
            /\ id \notin DOMAIN toolCallMap
            /\ msg.tool_name \notin DOMAIN toolCallsByName)
           => /\ Len(logContainer') = Len(logContainer) + 1
              /\ Len(logEntries') = Len(logEntries) + 1
              /\ logEntries'[Len(logEntries')].level = "tool_output"]_vars

\* C3: the log container never holds more than maxLogEntries children.
C3_LogSizeBounded == Len(logContainer) \in 0..maxLogEntries

\* C3 witness: the container is full and entries have been evicted
C3_Witness ==
    /\ Len(logContainer) = maxLogEntries
    /\ Len(logEntries) - sessionStart > maxLogEntries

\* C4: after N entries were appended to the emptied log, the container holds
\* exactly the last min(N, maxLogEntries) of them, in the order they were
\* appended: eviction takes the oldest, nothing is merged or reordered.
C4_FifoOrderPreserved ==
    LET n == Len(logEntries) - sessionStart
        k == IF n < maxLogEntries THEN n ELSE maxLogEntries
    IN  logContainer = [i \in 1..k |-> Len(logEntries) - k + i]

\* C4 witness: 250 entries were appended; 1 to 50 are gone, 51 is the oldest
C4_Witness ==
    /\ sessionStart = 0
    /\ Len(logEntries) = 250
    /\ Len(logContainer) = 200
    /\ logContainer[1] = 51
    /\ logContainer[200] = 250

\* C5 (as claimed): while the handling of a result frame is suspended on the
\* batch fetch, no later frame has been handled.
C5_FramesOneAtATime ==
    \A i \in 1..Len(fetches) : fetches[i].pc = "pending" => fetches[i].seq = framesRecv

\* C6 (as claimed): at most one socket is connecting or open at any time.
C6_AtMostOneConnection ==
    Cardinality({s \in 1..Len(sockets) :
                    sockets[s].readyState \in {"CONNECTING", "OPEN"}}) <= 1

\* C7: every socket was created by a connect attempt whose client-id fetch had
\* answered, and its endpoint carries the id that very fetch returned.
C7_HandshakeBeforeOpen ==
    \A s \in 1..Len(sockets) :
        LET a == attempts[sockets[s].attempt]
        IN  /\ a.pc \in {"awaitOpen", "done"}
            /\ a.sock = s
            /\ a.id \in ClientIds
            /\ sockets[s].url = WsUrl(a.id)

\* C7 witness: two attempts fetched different ids and each socket carries its own
C7_Witness ==
    /\ ev.op = "onopen"
    /\ Len(sockets) = 2
    /\ sockets[1].url = WsUrl("abc123")
    /\ sockets[2].url = WsUrl("def456")
    /\ sockets[2].readyState = "OPEN"

C9_StopClosesAndResets ==
    [][(ev'.op = "stopStrongSearch" /\ isStrongSearching)
       => /\ strongSearchSocket' = NoSocket
          /\ ~isStrongSearching'
          /\ progressPercent' = 0
          /\ strongSearchSocket # NoSocket
                 => sockets'[strongSearchSocket].readyState \in {"CLOSING", "CLOSED"}]_vars

\* C9 witness: a search whose request had been sent was stopped
C9_Witness ==
    /\ ev.op = "stopStrongSearch"
    /\ ~isStrongSearching
    /\ strongSearchSocket = NoSocket
    /\ progressPercent = 0
    /\ progressTitle = "search stopped"
    /\ \E s \in 1..Len(sockets) :
           sockets[s].readyState = "CLOSING" /\ Len(sockets[s].sent) = 1

\* C10 (as claimed): when the connection closes during a search, the search
\* ends and one error entry is appended; and from then on no socket is created
\* until the caller starts a search or opens the modal again.
C10_DropEndsSearchNoReconnect ==
    /\ [][(ev'.op = "onclose" /\ isStrongSearching)
          => /\ ~isStrongSearching'
             /\ Len(logEntries') = Len(logEntries) + 1
             /\ logEntries'[Len(logEntries')].level = "error"]_vars
    /\ [](connsAtDrop # <<>> => Len(sockets) = connsAtDrop[1])

\* C11 (as claimed): once the search that was requested over a connection has
\* ended (result or error frame, stop, close), a frame arriving on that
\* connection changes neither the searching flag, nor the displayed progress,
\* nor the displayed result.
C11_TerminalIgnoresFrames ==
    [][(/\ ev'.op = "onmessage"
        /\ ~isStrongSearching
        /\ sockets[ev'.sock].sent # <<>>)
       => /\ isStrongSearching' = isStrongSearching
          /\ progressPercent' = progressPercent
          /\ resultContainer' = resultContainer]_vars

\* C12 (as claimed): a result frame with relevant files issues exactly one batch
\* content request, whose file_paths is the frame's list; a result frame without
\* files issues none and ends the search at once; and when the batch request
\* is answered the search has ended and no further request was issued.
C12_ResultFrameOneBatchRequest ==
    /\ [][(ev'.op = "onmessage" /\ ev'.frame.type = "result")
          => IF ev'.frame.files = <<>>
             THEN fetches' = fetches /\ ~isStrongSearching'
             ELSE /\ Len(fetches') = Len(fetches) + 1
                  /\ SubSeq(fetches', 1, Len(fetches)) = fetches
                  /\ fetches'[Len(fetches')].files = ev'.frame.files
                  /\ fetches'[Len(fetches')].pc = "pending"]_vars
    /\ [][ev'.op = "batchFetchDone"
          => ~isStrongSearching' /\ Len(fetches') = Len(fetches)]_vars

\* What is shown for a file whose content could not be loaded
Placeholders ==
    {"error: cannot load content", "error: network error while loading",
     "cannot load content.", "cannot load content (no codebase or files)"}

\* C13: however the batch request is answered, the result is rendered and the
\* search ends: the files part lists every relevant file with either its
\* content or a placeholder, and when the answer is ok every path that is not
\* missing from it shows its own content, whatever is missing for the others.
C13_BatchFailureStillCompletes ==
    [][ev'.op = "batchFetchDone"
       => \E i \in 1..Len(fetches) :
              /\ fetches[i].pc = "pending"
              /\ fetches'[i].pc = "done"
              /\ LET f == fetches'[i]
                     r == resultContainer'[Len(resultContainer')]
                 IN  /\ ~isStrongSearching'
                     /\ r.part = "files"
                     /\ r.files = f.files
                     /\ Len(r.contents) = Len(f.files)
                     /\ \A j \in 1..Len(f.files) :
                            \/ r.contents[j] = "content of " \o f.files[j]
                            \/ r.contents[j] \in Placeholders
                     /\ f.outcome.kind = "ok"
                            => \A j \in 1..Len(f.files) :
                                   f.files[j] \notin f.outcome.missing
                                       => r.contents[j] = "content of " \o f.files[j]
                     /\ logEntries'[Len(logEntries')].level = "success"]_vars

\* C13 witness: b.py was missing from the answer; a.py shows its content
C13_Witness ==
    /\ ev.op = "batchFetchDone"
    /\ ~isStrongSearching
    /\ resultContainer # <<>>
    /\ resultContainer[Len(resultContainer)].part = "files"
    /\ resultContainer[Len(resultContainer)].contents
           = <<"content of a.py", "cannot load content.">>

IsFrameStep(e, type) == e.op = "onmessage" /\ e.frame.type = type

\* C15 (as claimed): an error frame received while searching appends one
\* error entry carrying the frame's error text and ends the search, leaving
\* the progress and both correlation maps as they were.
C15_ErrorFrameLogged ==
    [][(IsFrameStep(ev', "error") /\ isStrongSearching)
       => /\ ~isStrongSearching'
          /\ Len(logEntries') = Len(logEntries) + 1
          /\ logEntries'[Len(logEntries')].level = "error"
          /\ logEntries'[Len(logEntries')].kind = "text"
          /\ logEntries'[Len(logEntries')].text = ev'.frame.error.text
          /\ UNCHANGED <<progressPercent, progressTitle, toolCallMap, toolCallsByName>>]_vars

\* C17: a frame whose type is none of log, progress, result and error appends
\* exactly one warning entry and changes nothing else.
C17_UnknownFrameWarns ==
    [][(/\ ev'.op = "onmessage"
        /\ ev'.frame.type \notin {"log", "progress", "result", "error", "unparseable"})
       => /\ Len(logEntries') = Len(logEntries) + 1
          /\ SubSeq(logEntries', 1, Len(logEntries)) = logEntries
          /\ logEntries'[Len(logEntries')].level = "warning"
          /\ logContainer' = Append(logContainer, Len(logEntries'))
          /\ UNCHANGED <<currentStrongSearchCodebase, strongSearchSocket,
                         strongSearchClientId, isStrongSearching, toolCallMap,
                         toolCallsByName, progressPercent, progressTitle,
                         connectionStatus, resultContainer, sockets, attempts,
                         fetches>>]_vars

\* C17 witness: the unknown frame arrived during a search, with a tool call
\* registered and a progress of 50 shown
C17_Witness ==
    /\ ev.frame = UnknownFrame
    /\ isStrongSearching
    /\ "grep" \in DOMAIN toolCallsByName
    /\ progressPercent = 50
    /\ logEntries[Len(logEntries)].level = "warning"

\* C18 (as claimed): a payload that cannot be parsed is logged as a warning
\* and changes neither the searching flag nor the connection.
C18_MalformedLoggedAsWarning ==
    [][IsFrameStep(ev', "unparseable")
       => /\ Len(logEntries') = Len(logEntries) + 1
          /\ logEntries'[Len(logEntries')].level = "warning"
          /\ UNCHANGED <<isStrongSearching, sockets, strongSearchSocket>>]_vars

\* C18 (amended): a payload that cannot be parsed is logged as one entry of
\* level error and changes nothing else: the searching flag, the connection
\* (still open, so later frames are delivered), the progress and the maps stay.
C18_MalformedLoggedAsError ==
    [][IsFrameStep(ev', "unparseable")
       => /\ Len(logEntries') = Len(logEntries) + 1
          /\ logEntries'[Len(logEntries')].level = "error"
          /\ sockets'[ev'.sock].readyState = "OPEN"
          /\ UNCHANGED <<currentStrongSearchCodebase, strongSearchSocket,
                         strongSearchClientId, isStrongSearching, toolCallMap,
                         toolCallsByName, progressPercent, progressTitle,
                         connectionStatus, resultContainer, sockets, attempts,
                         fetches>>]_vars

\* C18 witness: during a search, a progress frame was handled after an
\* unparseable payload had been logged
C18_Witness ==
    /\ IsFrameStep(ev, "progress")
    /\ ev.frame.progress = 500
    /\ progressPercent = 50
    /\ isStrongSearching
    /\ logEntries[Len(logEntries)].text = "unparseable message received"
    /\ logEntries[Len(logEntries)].level = "error"

\* round(clamp(f, 0, 1) * 100), f in thousandths
DisplayPercent(f) ==
    LET clamped == IF f < 0 THEN 0 ELSE IF f > 1000 THEN 1000 ELSE f
    IN  (clamped + 5) \div 10

\* C19: after a progress frame with fraction f the displayed percent is
\* round(clamp(f, 0, 1) * 100), whatever was displayed before.
C19_PercentClamped ==
    [][IsFrameStep(ev', "progress")
       => /\ progressPercent' = DisplayPercent(ev'.frame.progress)
          /\ progressPercent' \in 0..100
          /\ ev'.frame.progress = -200 => progressPercent' = 0
          /\ ev'.frame.progress = 1500 => progressPercent' = 100
          /\ ev'.frame.progress = 500 => progressPercent' = 50]_vars

\* C19 witness: the fraction 0.5 arrived after the fraction 1.5, whose status is
\* still shown, and the displayed percent went down to 50
C19_Witness ==
    /\ IsFrameStep(ev, "progress")
    /\ ev.frame.progress = 500
    /\ progressTitle = "late"
    /\ progressPercent = 50

\* C16: when the client-id fetch of a connect attempt made by startStrongSearch
\* fails, no socket is created and nothing is sent, two error entries are
\* appended (the failed fetch, the failed start) and the searching flag is
\* cleared.
C16_IdFailureEndsStart ==
    [][(/\ ev'.op = "idFetchFail"
        /\ \E a \in 1..Len(attempts) :
               /\ attempts[a].pc = "awaitId"
               /\ attempts'[a].pc = "done"
               /\ attempts[a].caller = "startStrongSearch")
       => /\ sockets' = sockets
          /\ strongSearchSocket' = strongSearchSocket
          /\ ~isStrongSearching'
          /\ Len(logEntries') = Len(logEntries) + 2
          /\ \A e \in (Len(logEntries) + 1)..Len(logEntries') :
                 logEntries'[e].level = "error"]_vars

\* C16 witness: the search was started with no connection, its id fetch failed,
\* and there is still no socket
C16_Witness ==
    /\ ev.op = "idFetchFail"
    /\ sockets = <<>>
    /\ ~isStrongSearching
    /\ \E a \in 1..Len(attempts) :
           /\ attempts[a].caller = "startStrongSearch"
           /\ attempts[a].pc = "done"
           /\ attempts[a].sock = NoSocket
    /\ logEntries[Len(logEntries)].level = "error"
    /\ logEntries[Len(logEntries)].text = "start failed: WebSocket connection failed"

C21_ReadmeToolsServed ==
    \A i \in 1..Len(mcpReplies) :
        LET r == mcpReplies[i]
        IN  /\ r.request = "tools/list" => ReadmeTools \subseteq r.tools
            /\ (r.request = "tools/call" /\ r.name \in ReadmeTools)
                   => r.text # "Unknown tool: " \o r.name

\* The tool call banners of the current session built from a message with
\* this tool name, whatever their timestamp
NameEntries(name) ==
    {e \in (sessionStart + 1)..Len(logEntries) :
        logEntries[e].kind = "banner" /\ logEntries[e].tool_name = name}

\* C22: when a tool_output carries the name and timestamp of a call A and calls
\* of the same tool with other timestamps were registered after A, the output
\* goes to A and every such later call keeps the output it had.
C22_ExactKeyBeforeName ==
    [][LET msg == ev'.frame.message
           exact == CallEntries(msg.tool_name, msg.timestamp)
           newer == {b \in NameEntries(msg.tool_name) :
                        /\ exact # {}
                        /\ b > Latest(exact)
                        /\ logEntries[b].timestamp # msg.timestamp}
       IN  (/\ IsOutputStep(ev')
            /\ msg.timestamp # NoTimestamp
            /\ exact # {}
            /\ newer # {})
           => /\ logEntries'[Latest(exact)].output = msg.output_preview
              /\ \A b \in newer : logEntries'[b] = logEntries[b]]_vars

\* C22 witness: grep was called with timestamp 1000, then with 1001; the output
\* for 1000 is on the first call and the second call has none
C22_Witness ==
    /\ IsOutputStep(ev)
    /\ ev.frame.message.tool_name = "grep"
    /\ ev.frame.message.timestamp = 1000
    /\ \E a, b \in NameEntries("grep") :
           /\ a < b
           /\ logEntries[a].timestamp = 1000
           /\ logEntries[a].output = ev.frame.message.output_preview
           /\ logEntries[b].timestamp = 1001
           /\ logEntries[b].output = ""
           /\ toolCallsByName["grep"] = b

\* C23: when a tool_output has no entry under its call id and calls of its tool
\* name were registered, the output goes to the call of that name registered
\* last, and no other entry changes.
C23_NameFallbackLatest ==
    [][LET msg == ev'.frame.message
           id == generateToolCallId(msg.tool_name, TimestampOr(msg.timestamp, clock))
           named == NameEntries(msg.tool_name)
       IN  (/\ IsOutputStep(ev')
            /\ id \notin DOMAIN toolCallMap
            /\ named # {})
           => /\ Len(logEntries') = Len(logEntries)
              /\ logContainer' = logContainer
              /\ \A e \in 1..Len(logEntries) :
                     logEntries'[e] =
                         IF e = Latest(named)
                         THEN [logEntries[e] EXCEPT !.output = msg.output_preview]
                         ELSE logEntries[e]]_vars

\* C23 witness: grep was called with timestamps 1000 and 1001; an output for
\* grep without timestamp is on the second call and the first has none
C23_Witness ==
    /\ IsOutputStep(ev)
    /\ ev.frame.message.tool_name = "grep"
    /\ ev.frame.message.timestamp = NoTimestamp
    /\ \E a, b \in NameEntries("grep") :
           /\ a < b
           /\ logEntries[a].timestamp = 1000
           /\ logEntries[a].output = ""
           /\ logEntries[b].timestamp = 1001
           /\ logEntries[b].output = ev.frame.message.output_preview

\* C24: an output is attached only to a call registered before it. Every entry
\* is created without output, so a call whose output came first has none when
\* its frame has been handled; and the output of an entry changes only while a
\* tool_output is handled, so an earlier output never reaches a later entry.
C24_EarlyOutputNeverLinked ==
    [][/\ Len(logEntries') >= Len(logEntries)
       /\ \A e \in (Len(logEntries) + 1)..Len(logEntries') : logEntries'[e].output = ""
       /\ \A e \in 1..Len(logEntries) :
              logEntries'[e].output # logEntries[e].output
                  => /\ IsOutputStep(ev')
                     /\ logEntries'[e].output = ev'.frame.message.output_preview]_vars

\* C24 witness: the output "early" of grep at 1000 came while only grep at 1001
\* was registered and is shown there; the call of grep at 1000 has just been
\* handled and its entry, the last one, has no output
C24_Witness ==
    /\ ev.op = "onmessage"
    /\ ev.frame = LogFrame("tool_call", ObjMsg("grep", 1000, ""))
    /\ Len(logEntries) >= 2
    /\ logEntries[Len(logEntries)].kind = "banner"
    /\ logEntries[Len(logEntries)].timestamp = 1000
    /\ logEntries[Len(logEntries)].output = ""
    /\ toolCallMap[generateToolCallId("grep", 1000)] = Len(logEntries)
    /\ \E b \in NameEntries("grep") :
           /\ b < Len(logEntries)
           /\ logEntries[b].timestamp = 1001
           /\ logEntries[b].output = "early"

\* The correlation maps are written in this step
MapsWritten ==
    toolCallMap' # toolCallMap \/ toolCallsByName' # toolCallsByName

\* A call id or a tool name is dropped from the correlation maps in this step
MapsShrink ==
    \/ ~(DOMAIN toolCallMap \subseteq DOMAIN toolCallMap')
    \/ ~(DOMAIN toolCallsByName \subseteq DOMAIN toolCallsByName')

\* C25 as claimed: the correlation maps are written only by a log frame of level
\* tool_call with a structured message, and entries leave them only when the
\* modal is opened, which resets the session.
C25_OnlyStructuredToolCallRegisters ==
    [][/\ MapsWritten =>
              \/ ev'.op = "openModal"
              \/ /\ IsFrameStep(ev', "log")
                 /\ ev'.frame.level = "tool_call"
                 /\ ev'.frame.message.k = "obj"
       /\ MapsShrink => ev'.op = "openModal"]_vars

\* C25: a log frame stores the entry it appends in both correlation maps when it
\* is a structured message with a tool name at level tool_call, or a string
\* holding the JSON of a tool call at any level but agent_thinking; no other
\* frame writes the maps, and entries leave them only when the modal is opened.
C25_ToolCallMessagesRegister ==
    [][LET msg == ev'.frame.message
           registers ==
               /\ IsFrameStep(ev', "log")
               /\ \/ /\ msg.k = "obj"
                     /\ msg.tool_name # ""
                     /\ ev'.frame.level = "tool_call"
                  \/ /\ msg.k = "strjson"
                     /\ ev'.frame.level # "agent_thinking"
           id == generateToolCallId(msg.tool_name, TimestampOr(msg.timestamp, clock))
       IN  /\ registers =>
                  /\ Len(logEntries') = Len(logEntries) + 1
                  /\ id \in DOMAIN toolCallMap'
                  /\ toolCallMap'[id] = Len(logEntries')
                  /\ toolCallsByName'[msg.tool_name] = Len(logEntries')
           /\ MapsWritten => (registers \/ ev'.op = "openModal")
           /\ MapsShrink => ev'.op = "openModal"]_vars

\* C25 witness: an info frame whose message is the JSON string of a call of grep
\* has been handled; its entry is the latest call of grep in both maps
C25_Witness ==
    /\ ev.op = "onmessage"
    /\ ev.frame = LogFrame("info", JsonStrMsg("grep", 1000))
    /\ logEntries[Len(logEntries)].level = "info"
    /\ logEntries[Len(logEntries)].kind = "banner"
    /\ toolCallMap[generateToolCallId("grep", 1000)] = Len(logEntries)
    /\ toolCallsByName["grep"] = Len(logEntries)

\* A search request is sent on socket s in this step
SentOn(s) == Len(sockets'[s].sent) > Len(sockets[s].sent)

\* C26: a search request is sent only on a socket that is open when the task
\* ends: its id was fetched, it was created connecting, its open event has
\* happened and no close or error event of it has. A socket that is closing
\* or closed never opens again and is never sent on.
C26_SendOnlyWhileOpen ==
    /\ [](\A s \in 1..Len(sockets) :
              sockets[s].sent # <<>>
                  => /\ sockets[s].wasOpen
                     /\ attempts[sockets[s].attempt].id \in ClientIds
                     /\ attempts[sockets[s].attempt].pc = "done")
    /\ [][\A s \in 1..Len(sockets) :
              /\ SentOn(s)
                    => /\ s = strongSearchSocket'
                       /\ sockets[s].readyState \in {"CONNECTING", "OPEN"}
                       /\ sockets'[s].readyState = "OPEN"
                       /\ Len(sockets'[s].sent) = Len(sockets[s].sent) + 1
              /\ sockets[s].readyState \in {"CLOSING", "CLOSED"}
                    => sockets'[s].readyState \in {"CLOSING", "CLOSED"}
              /\ sockets'[s].readyState = "CONNECTING"
                    => sockets[s].readyState = "CONNECTING"]_vars

\* C26 witness: startStrongSearch waited for the id and for the socket; the
\* open event has just been handled and the request went out on the open socket
C26_Witness ==
    /\ ev.op = "onopen"
    /\ strongSearchSocket = ev.sock
    /\ sockets[ev.sock].readyState = "OPEN"
    /\ attempts[sockets[ev.sock].attempt].caller = "startStrongSearch"
    /\ attempts[sockets[ev.sock].attempt].pc = "done"
    /\ Len(sockets[ev.sock].sent) = 1
    /\ isStrongSearching
    /\ connectionStatus = "connected"

\* C27: when the id collaborator answers without a client_id, no WebSocket is
\* created for that connect attempt, and the attempt ends reporting the failure.
C27_NoSocketWithoutClientId ==
    /\ \A s \in 1..Len(sockets) :
           /\ attempts[sockets[s].attempt].id # Undefined
           /\ sockets[s].url # WsUrl(Undefined)
    /\ \A a \in 1..Len(attempts) :
           attempts[a].id = Undefined => attempts[a].pc = "done" /\ attempts[a].sock = NoSocket

\* The entries appended to the log in this step
NewEntries == (Len(logEntries) + 1)..Len(logEntries')

\* An entry reporting a disconnection is appended in this step
DisconnectLogged ==
    \E e \in NewEntries : logEntries'[e].text = "WebSocket disconnected unexpectedly"

C29_LateCloseIgnored ==
    [][(/\ ev'.op \in {"onclose", "onerror"}
        /\ sockets[ev'.sock].readyState = "CLOSING"
        /\ strongSearchSocket # ev'.sock)
       => /\ strongSearchSocket' = strongSearchSocket
          /\ isStrongSearching' = isStrongSearching
          /\ ~DisconnectLogged]_vars

\* C30: stopStrongSearch and closeModal cancel a connection that
\* startStrongSearch is establishing. While no codebase is selected no socket
\* created for a start is connecting or open, no request is ever sent with
\* codebase_name null, and the continuation of a start that runs when its
\* socket opens sends the request only if the search is still running.
C30_CancelDuringConnect ==
    /\ [](\A s \in 1..Len(sockets) :
              /\ (/\ currentStrongSearchCodebase = Null
                  /\ attempts[sockets[s].attempt].caller = "startStrongSearch")
                     => sockets[s].readyState \notin {"CONNECTING", "OPEN"}
              /\ \A i \in 1..Len(sockets[s].sent) :
                     sockets[s].sent[i].codebase_name # Null)
    /\ [][\A s \in 1..Len(sockets) :
              (SentOn(s) /\ ev'.op = "onopen") => isStrongSearching]_vars

\* C31: the handler of a result frame that resumes after the batch answer
\* leaves a later search alone. When another search is running by then, on
\* another socket or still connecting, the resumed handler neither clears the
\* searching flag nor renders into the result container or the log.
C31_ResumedHandlerKeepsNewSearch ==
    [][\A i \in 1..Len(fetches) :
           (/\ ev'.op = "batchFetchDone"
            /\ fetches[i].pc = "pending"
            /\ fetches'[i].pc = "done"
            /\ isStrongSearching
            /\ strongSearchSocket # fetches[i].sock)
           => /\ isStrongSearching'
              /\ resultContainer' = resultContainer
              /\ logEntries' = logEntries]_vars

\* The entries that startStrongSearch writes first, one per search
SearchStarts ==
    {e \in 1..Len(logEntries) : logEntries[e].text = "--------- new search ---------"}

\* C32: a tool_output handled while a search is running changes only call
\* entries registered during that search, that is, entries that follow the
\* entry with which the search began.
C32_NoLeakBetweenSearches ==
    [][(IsOutputStep(ev') /\ isStrongSearching /\ SearchStarts # {})
       => \A e \in 1..Len(logEntries) :
              logEntries'[e] # logEntries[e] => e > Latest(SearchStarts)]_vars

\* C33: a tool_output is attached only to a call entry that is still a child
\* of the log container; an entry that eviction has removed never receives one.
C33_OutputOnlyToEntryInLog ==
    [][IsOutputStep(ev')
       => \A e \in 1..Len(logEntries) :
              logEntries'[e].output # logEntries[e].output
                  => \E i \in 1..Len(logContainer') : logContainer'[i] = e]_vars

\* C34: startStrongSearch called while a search is running changes nothing:
\* no entry, no connect, no request, the same progress; and stopStrongSearch
\* called while no search is running changes nothing either, so a connection
\* that is open stays open and referenced.
C34_GuardedCallsAreNoOps ==
    [][/\ (ev'.op = "startStrongSearch" /\ isStrongSearching) => progVars' = progVars
       /\ (ev'.op = "stopStrongSearch" /\ ~isStrongSearching) => progVars' = progVars]_vars

\* C34 witness: a search is running and has shown a progress of 50 percent;
\* startStrongSearch has just been called with a query and the progress, which
\* a start that acts sets to 0 and then to 5, is still 50, the one request the
\* connection has carried is still the only one
C34_Witness ==
    /\ ev.op = "startStrongSearch"
    /\ ev.arg = "auth flow"
    /\ isStrongSearching
    /\ progressPercent = 50
    /\ strongSearchSocket # NoSocket
    /\ sockets[strongSearchSocket].readyState = "OPEN"
    /\ Len(sockets[strongSearchSocket].sent) = 1
    /\ logEntries[Len(logEntries)].text = "search request sent"

\* The tools that take a codebase_name
CodebaseTools == HandledTools \ {"list_codebases"}

\* C35: a tool that takes a codebase_name calls its backend endpoint only after
\* GET /codebases/indexed has answered with a list in which the codebase is
\* marked indexed; when the codebase is not listed, not indexed, or the check
\* fails, the reply is an isError result and the endpoint was not called.
C35_OperationAfterCodebaseCheck ==
    \A i \in 1..Len(mcpReplies) :
        LET r == mcpReplies[i]
            listed == /\ r.indexed.ok
                      /\ [name |-> r.codebase, indexed |-> TRUE] \in r.indexed.list
            operation == {j \in 1..Len(r.calls) : r.calls[j] = OperationEndpoint(r.name)}
        IN  (r.request = "tools/call" /\ r.name \in CodebaseTools)
                => /\ operation # {}
                      => /\ listed
                         /\ \E j \in 1..Len(r.calls) :
                                /\ r.calls[j] = "GET /codebases/indexed"
                                /\ \A k \in operation : j < k
                   /\ (r.kind # "McpError" /\ ~listed)
                      => r.kind = "isError" /\ operation = {}

\* C35 witness: batch_get_file_content was called for a codebase that is listed
\* but not indexed and was refused after the check alone; standard_search was
\* called for an indexed codebase and its search endpoint was called after the
\* check
C35_Witness ==
    /\ Len(mcpReplies) = 2
    /\ mcpReplies[1].name = "batch_get_file_content"
    /\ mcpReplies[1].indexed.list = {[name |-> "repo1", indexed |-> FALSE]}
    /\ mcpReplies[1].kind = "isError"
    /\ mcpReplies[1].calls = <<"GET /codebases/indexed">>
    /\ mcpReplies[2].name = "standard_search"
    /\ mcpReplies[2].kind = "result"
    /\ mcpReplies[2].calls = <<"GET /codebases/indexed", "POST /search">>

\* The timers of a codebase that are active
ActiveTimers(c) ==
    {t \in 1..Len(intervals) : intervals[t].codebase = c /\ intervals[t].active}

\* C36: a codebase never has more than one active polling timer, and a timer
\* is active exactly while it is the entry of its codebase in indexingPolls,
\* so isIndexing(name) holds exactly when a timer of name is active.
C36_OneTimerPerCodebase ==
    /\ \A c \in Codebases :
           /\ Cardinality(ActiveTimers(c)) <= 1
           /\ isIndexing(PollCur, c) <=> ActiveTimers(c) # {}
    /\ \A t \in 1..Len(intervals) :
           intervals[t].active <=> indexingPolls[intervals[t].codebase] = t

\* C36 witness: indexing was triggered and ended while the analyzer was not
\* ready; a tick showed that on the card, which made the index button usable
\* again, and kept polling; the button was clicked and the timer that was
\* still active was cleared and replaced by the second
C36_Witness ==
    /\ Len(intervals) = 2
    /\ ~intervals[1].active
    /\ intervals[2].active
    /\ indexingPolls["repo1"] = 2
    /\ Cardinality({i \in 1..Len(pollTasks) : pollTasks[i].kind = "reindex"}) = 2
    /\ \A i \in 1..Len(pollTasks) :
           /\ pollTasks[i].kind = "reindex" => pollTasks[i].answer.kind \in {"none", "ok"}
           /\ pollTasks[i].kind = "tick"
                  => /\ pollTasks[i].pc = "done"
                     /\ pollTasks[i].answer.kind = "ok"
                     /\ pollTasks[i].answer.present
                     /\ ~pollTasks[i].answer.analyzer_ready
    /\ \E i \in 1..Len(pollTasks) : pollTasks[i].kind = "tick"

\* C37: once handleReindexCodebase has triggered an indexing run, the handler
\* of a poll tick whose answer was read before that run began, and shows the
\* codebase as not indexing with its analyzer ready, leaves the polling timer
\* in place and the card as it is.
C37_StaleTickKeepsPolling ==
    [][\A i \in 1..Len(pollTasks) :
           LET t == pollTasks[i]
               c == t.codebase
           IN  (/\ t.kind = "tick"
                /\ t.pc = "response"
                /\ pollTasks'[i].pc = "done"
                /\ t.answer.kind = "ok"
                /\ t.answer.present
                /\ t.answer.indexing_status # "indexing"
                /\ t.answer.analyzer_ready
                /\ t.answer.run < server[c].run
                /\ server[c].indexing_status = "indexing"
                /\ \E j \in 1..Len(pollTasks) :
                       /\ pollTasks[j].kind = "reindex"
                       /\ pollTasks[j].codebase = c
                       /\ pollTasks[j].pc = "done"
                       /\ pollTasks[j].answer.kind = "ok"
                       /\ pollTasks[j].answer.run = server[c].run
                /\ isIndexing(PollCur, c))
               => /\ indexingPolls'[c] = indexingPolls[c]
                  /\ card'[c] = card[c]]_vars

\* C38: from the return of openModal until closeModal is called the modal is
\* marked open: while a codebase is selected, which openModal does and only
\* closeModal undoes, the modal has the class 'open'.
C38_OpenUntilClosed == currentStrongSearchCodebase # Null => modalOpen

====
